---- MODULE Spec2Model ----
(***************************************************************************)
(* Rational-tree path identifiers (src/src/lib.rs).                        *)
(*                                                                         *)
(* A PathIdentifier is a 2x2 matrix of u64 fields built by multiplying one *)
(* elementary matrix per path element; PathIterator factors the matrix     *)
(* back into the path with integer division.                               *)
(*                                                                         *)
(* A u64 is kept at its full width of 64 bits.  TLC's integers are 32 bits *)
(* wide, so a u64 is written as its limbs of LimbBits bits, the least      *)
(* significant limb first and no zero limb at the end: the value of        *)
(* <<l1, ..., lk>> is l1 + l2*2^15 + ... + lk*2^(15*(k-1)), k <= 5, and    *)
(* the fifth limb is below 16.  So 502 is <<502>>, 0 is <<>>, 2^32 is      *)
(* <<0, 0, 4>>.  U64(n) is the u64 of a natural number n below 2^31.       *)
(***************************************************************************)
EXTENDS Integers, Sequences, FiniteSets, TLC

(***************************************************************************)
(* u64 arithmetic                                                          *)
(***************************************************************************)
U64Bits == 64
LimbBits == 15
LimbBase == 2^LimbBits
LimbCount == (U64Bits \div LimbBits) + 1
TopBase == 2^(U64Bits - LimbBits * (LimbCount - 1))

\* Limb i of a natural number written in limbs, 0 beyond its length.
Limb(a, i) == IF i <= Len(a) THEN a[i] ELSE 0

\* The limbs of w without the zero limbs at its end.
RECURSIVE StripFrom(_, _)
StripFrom(w, n) ==
    IF n = 0 THEN <<>>
    ELSE IF w[n] # 0 THEN SubSeq(w, 1, n)
    ELSE StripFrom(w, n - 1)

Strip(w) == StripFrom(w, Len(w))

U64(n) == Strip(<<n % LimbBase, (n \div LimbBase) % LimbBase, n \div (LimbBase * LimbBase)>>)

U64_MAX == <<LimbBase - 1, LimbBase - 1, LimbBase - 1, LimbBase - 1, TopBase - 1>>

IsU64(a) ==
    /\ a \in Seq(Nat)
    /\ Len(a) <= LimbCount
    /\ \A i \in 1..Len(a) : a[i] < (IF i < LimbCount THEN LimbBase ELSE TopBase)
    /\ Strip(a) = a

\* The exact sum a + b + c of two natural numbers in limbs, limbs i and up.
RECURSIVE WideAddFrom(_, _, _, _)
WideAddFrom(a, b, i, c) ==
    IF i > Len(a) /\ i > Len(b)
    THEN IF c = 0 THEN <<>> ELSE <<c>>
    ELSE LET s == Limb(a, i) + Limb(b, i) + c
         IN  <<s % LimbBase>> \o WideAddFrom(a, b, i + 1, s \div LimbBase)

WideAdd(a, b) == WideAddFrom(a, b, 1, 0)

\* The exact product a * d + c of a natural number in limbs and one limb d.
RECURSIVE WideMulLimbFrom(_, _, _, _)
WideMulLimbFrom(a, d, i, c) ==
    IF i > Len(a)
    THEN IF c = 0 THEN <<>> ELSE <<c>>
    ELSE LET s == a[i] * d + c
         IN  <<s % LimbBase>> \o WideMulLimbFrom(a, d, i + 1, s \div LimbBase)

\* The exact product a * b, schoolbook: a*b = a*b[j] + LimbBase * (a * b[j+1..]).
RECURSIVE WideMulFrom(_, _, _)
WideMulFrom(a, b, j) ==
    IF j > Len(b)
    THEN <<>>
    ELSE WideAdd(WideMulLimbFrom(a, b[j], 1, 0), <<0>> \o WideMulFrom(a, b, j + 1))

WideMul(a, b) == WideMulFrom(a, b, 1)

\* The low 64 bits of a natural number in limbs: its value modulo 2^64.
Truncate(w) ==
    Strip([i \in 1..(IF Len(w) < LimbCount THEN Len(w) ELSE LimbCount) |->
              IF i < LimbCount THEN w[i] ELSE w[i] % TopBase])

\* The natural number in limbs does not fit 64 bits.
ExceedsU64(w) ==
    \/ Limb(w, LimbCount) >= TopBase
    \/ \E i \in (LimbCount + 1)..Len(w) : w[i] # 0

\* a < b for two natural numbers in limbs, from limb i down.
RECURSIVE LessFrom(_, _, _)
LessFrom(a, b, i) ==
    IF i = 0 THEN FALSE
    ELSE IF Limb(a, i) # Limb(b, i) THEN Limb(a, i) < Limb(b, i)
    ELSE LessFrom(a, b, i - 1)

WideLess(a, b) == LessFrom(a, b, IF Len(a) > Len(b) THEN Len(a) ELSE Len(b))

u64_lt(a, b) == WideLess(a, b)

\* a - b - borrow for limbs i to n; when a < b the limbs are those of
\* a - b + LimbBase^n.
RECURSIVE SubFrom(_, _, _, _, _)
SubFrom(a, b, i, n, borrow) ==
    IF i > n
    THEN <<>>
    ELSE LET d == Limb(a, i) - Limb(b, i) - borrow
         IN  IF d < 0
             THEN <<d + LimbBase>> \o SubFrom(a, b, i + 1, n, 1)
             ELSE <<d>> \o SubFrom(a, b, i + 1, n, 0)

\* u64 `+`, `*`, `-` as the build without overflow checks computes them
\* (the result modulo 2^64) ...
wrapping_add(a, b) == Truncate(WideAdd(a, b))
wrapping_mul(a, b) == Truncate(WideMul(a, b))
wrapping_sub(a, b) == Truncate(SubFrom(a, b, 1, LimbCount, 0))

\* ... and whether the exact result leaves the u64 range ("attempt to add /
\* multiply / subtract with overflow" in a build with overflow checks).
u64_add_overflows(a, b) == ExceedsU64(WideAdd(a, b))
u64_mul_overflows(a, b) == ExceedsU64(WideMul(a, b))
u64_sub_overflows(a, b) == u64_lt(a, b)

\* The largest limb q with q * b <= r, for r < LimbBase * b: the bits of q
\* from bit k down, d holding the bits above.
RECURSIVE QuotientLimb(_, _, _, _)
QuotientLimb(r, b, d, k) ==
    IF k < 0
    THEN d
    ELSE IF WideLess(r, WideMulLimbFrom(b, d + 2^k, 1, 0))
         THEN QuotientLimb(r, b, d, k - 1)
         ELSE QuotientLimb(r, b, d + 2^k, k - 1)

\* <<quotient, remainder>> of (a with its low i-1 limbs dropped) by b # 0:
\* long division, one limb of a per step.
RECURSIVE DivModFrom(_, _, _)
DivModFrom(a, b, i) ==
    IF i > Len(a)
    THEN <<<<>>, <<>>>>
    ELSE LET p == DivModFrom(a, b, i + 1)
             r == <<a[i]>> \o p[2]
             d == QuotientLimb(r, b, 0, LimbBits - 1)
         IN  <<<<d>> \o p[1],
               Strip(SubFrom(r, WideMulLimbFrom(b, d, 1, 0), 1, Len(r), 0))>>

\* u64 `/` and `%` for a divisor that is not zero.
u64_div(a, b) == Strip(DivModFrom(a, b, 1)[1])
u64_rem(a, b) == Strip(DivModFrom(a, b, 1)[2])

(***************************************************************************)
(* PathIdentifier                                                          *)
(*                                                                         *)
(* PathIdentifier(f0, f1, f2, f3) is the tuple <<f0, f1, f2, f3>>: the     *)
(* source's self.0 .. self.3 are self[1] .. self[4] here.                  *)
(***************************************************************************)
FUDGE == 2

\* struct PathIdentifier(u64, u64, u64, u64)
IsPathIdentifier(x) == Len(x) = Len(<<0, 1, 2, 3>>) /\ \A i \in 1..Len(x) : IsU64(x[i])

root == <<U64(1), U64(0), U64(0), U64(1)>>

\* is_root testing the last field instead of field .1
is_root_last_field(self) == self[4] = U64(0)

is_root(self) == self[2] = U64(0)

from_path_element(element) == <<element, U64(1), U64(1), U64(0)>>

\* a * b + c * d on u64, as one field of the matrix product is computed, and
\* whether one of its three operations overflows.
mul_add(a, b, c, d) == wrapping_add(wrapping_mul(a, b), wrapping_mul(c, d))

mul_add_overflows(a, b, c, d) ==
    \/ u64_mul_overflows(a, b)
    \/ u64_mul_overflows(c, d)
    \/ u64_add_overflows(wrapping_mul(a, b), wrapping_mul(c, d))

\* The product taken in the other order: other x self.
mul_reversed(self, other) ==
    <<mul_add(other[1], self[1], other[2], self[3]),
      mul_add(other[1], self[2], other[2], self[4]),
      mul_add(other[3], self[1], other[4], self[3]),
      mul_add(other[3], self[2], other[4], self[4])>>

mul(self, other) ==
    <<mul_add(self[1], other[1], self[2], other[3]),
      mul_add(self[1], other[2], self[2], other[4]),
      mul_add(self[3], other[1], self[4], other[3]),
      mul_add(self[3], other[2], self[4], other[4])>>

mul_overflows(self, other) ==
    \/ mul_add_overflows(self[1], other[1], self[2], other[3])
    \/ mul_add_overflows(self[1], other[2], self[2], other[4])
    \/ mul_add_overflows(self[3], other[1], self[4], other[3])
    \/ mul_add_overflows(self[3], other[2], self[4], other[4])

\* mul_assign reading self.0 and self.2 after it has assigned them.
mul_assign_in_place(self, other) ==
    LET n0 == mul_add(self[1], other[1], self[2], other[3])
        n1 == mul_add(n0, other[2], self[2], other[4])
        n2 == mul_add(self[3], other[1], self[4], other[3])
        n3 == mul_add(n2, other[2], self[4], other[4])
    IN  <<n0, n1, n2, n3>>

mul_assign(self, other) ==
    LET s0 == self[1]
        s1 == self[2]
        s2 == self[3]
        s3 == self[4]
    IN  <<mul_add(s0, other[1], s1, other[3]),
          mul_add(s0, other[2], s1, other[4]),
          mul_add(s2, other[1], s3, other[3]),
          mul_add(s2, other[2], s3, other[4])>>

mul_assign_overflows(self, other) ==
    LET s0 == self[1]
        s1 == self[2]
        s2 == self[3]
        s3 == self[4]
    IN  \/ mul_add_overflows(s0, other[1], s1, other[3])
        \/ mul_add_overflows(s0, other[2], s1, other[4])
        \/ mul_add_overflows(s2, other[1], s3, other[3])
        \/ mul_add_overflows(s2, other[2], s3, other[4])

\* The loop of from_iter from identifier id on, over the pieces left.  Each
\* `id *= ...` is a statement: its value is computed, as a PathIdentifier of
\* four fields, before the next piece is taken.
RECURSIVE from_iter_loop(_, _)
from_iter_loop(id, pieces) ==
    IF pieces = <<>>
    THEN id
    ELSE LET stepped == mul_assign(
                 id, from_path_element(wrapping_add(Head(pieces), U64(FUDGE))))
         IN  IF IsPathIdentifier(stepped)
             THEN from_iter_loop(stepped, Tail(pieces))
             ELSE stepped

RECURSIVE from_iter_loop_overflows(_, _)
from_iter_loop_overflows(id, pieces) ==
    IF pieces = <<>>
    THEN FALSE
    ELSE \/ u64_add_overflows(Head(pieces), U64(FUDGE))
         \/ mul_assign_overflows(
                id, from_path_element(wrapping_add(Head(pieces), U64(FUDGE))))
         \/ from_iter_loop_overflows(
                mul_assign(id, from_path_element(wrapping_add(Head(pieces), U64(FUDGE)))),
                Tail(pieces))

\* from_iter without the FUDGE added to each piece.
RECURSIVE from_iter_loop_unfudged(_, _)
from_iter_loop_unfudged(id, pieces) ==
    IF pieces = <<>>
    THEN id
    ELSE LET stepped == mul_assign(id, from_path_element(Head(pieces)))
         IN  IF IsPathIdentifier(stepped)
             THEN from_iter_loop_unfudged(stepped, Tail(pieces))
             ELSE stepped

from_iter_unfudged(iter) == from_iter_loop_unfudged(root, iter)

from_iter(iter) == from_iter_loop(root, iter)

from_iter_overflows(iter) == from_iter_loop_overflows(root, iter)

\* From<Vec<u64>>: pieces.into_iter().collect()
from_vec(pieces) == from_iter(pieces)

(***************************************************************************)
(* Text: a &str is a sequence of one-character strings.                    *)
(***************************************************************************)
DecimalDigits == <<"0", "1", "2", "3", "4", "5", "6", "7", "8", "9">>

IsDigit(c) == \E k \in 1..Len(DecimalDigits) : DecimalDigits[k] = c

DigitValue(c) == (CHOOSE k \in 1..Len(DecimalDigits) : DecimalDigits[k] = c) - 1

Ok(v) == [tag |-> "Ok", val |-> v]

Err(kind) == [tag |-> "Err", kind |-> kind]

\* The digit loop of u64::from_str: result = result * 10 + digit with checked
\* arithmetic, stopping at the first character that is no digit.
RECURSIVE parse_digits(_, _)
parse_digits(result, digits) ==
    IF digits = <<>>
    THEN Ok(result)
    ELSE IF ~IsDigit(Head(digits))
         THEN Err("InvalidDigit")
         ELSE IF \/ u64_mul_overflows(result, U64(10))
                 \/ u64_add_overflows(wrapping_mul(result, U64(10)),
                                      U64(DigitValue(Head(digits))))
              THEN Err("PosOverflow")
              ELSE parse_digits(
                       wrapping_add(wrapping_mul(result, U64(10)),
                                    U64(DigitValue(Head(digits)))),
                       Tail(digits))

\* u64::from_str (radix 10): empty text and a lone sign are errors, one
\* leading "+" is skipped, "-" is no digit of an unsigned number.
u64_from_str(src) ==
    IF src = <<>>
    THEN Err("Empty")
    ELSE IF Len(src) = 1 /\ Head(src) \in {"+", "-"}
         THEN Err("InvalidDigit")
         ELSE IF Head(src) = "+"
              THEN parse_digits(U64(0), Tail(src))
              ELSE parse_digits(U64(0), src)

\* s.split('.'): the pieces between the dots, from position i on, cur being
\* the piece read so far.  A text of n dots has n + 1 pieces.
RECURSIVE split_loop(_, _, _)
split_loop(s, i, cur) ==
    IF i > Len(s)
    THEN <<cur>>
    ELSE IF s[i] = "."
         THEN <<cur>> \o split_loop(s, i + 1, <<>>)
         ELSE split_loop(s, i + 1, Append(cur, s[i]))

split(s) == split_loop(s, 1, <<>>)

\* collect() into Result<PathIdentifier, ParseIntError>: from_iter's loop
\* pulls one parsed piece at a time and stops at the first Err, which is then
\* the result; the pieces before it have been multiplied in by then.
RECURSIVE collect_loop(_, _)
collect_loop(id, pieces) ==
    IF pieces = <<>>
    THEN Ok(id)
    ELSE LET piece == u64_from_str(Head(pieces))
         IN  IF piece.tag = "Err"
             THEN piece
             ELSE LET stepped == mul_assign(
                          id, from_path_element(wrapping_add(piece.val, U64(FUDGE))))
                  IN  IF IsPathIdentifier(stepped)
                      THEN collect_loop(stepped, Tail(pieces))
                      ELSE Ok(stepped)

RECURSIVE collect_loop_overflows(_, _)
collect_loop_overflows(id, pieces) ==
    IF pieces = <<>>
    THEN FALSE
    ELSE LET piece == u64_from_str(Head(pieces))
         IN  IF piece.tag = "Err"
             THEN FALSE
             ELSE \/ u64_add_overflows(piece.val, U64(FUDGE))
                  \/ mul_assign_overflows(
                         id, from_path_element(wrapping_add(piece.val, U64(FUDGE))))
                  \/ collect_loop_overflows(
                         mul_assign(id, from_path_element(wrapping_add(piece.val, U64(FUDGE)))),
                         Tail(pieces))

from_str(s) ==
    IF s = <<>>
    THEN Ok(root)
    ELSE collect_loop(root, split(s))

from_str_overflows(s) ==
    IF s = <<>>
    THEN FALSE
    ELSE collect_loop_overflows(root, split(s))

(***************************************************************************)
(* PathIterator                                                            *)
(***************************************************************************)
None == <<>>

Some(x) == <<x>>

path_iter(self) == [current |-> self]

\* next without the assignment to self.current.1
next_stale_field(self) ==
    IF self.current[2] = U64(0)
    THEN [item |-> <<>>, current |-> self.current]
    ELSE LET result == u64_div(self.current[1], self.current[3])
             s0 == self.current[1]
             s1 == self.current[2]
             s2 == self.current[3]
             s3 == self.current[4]
         IN  [item |-> <<result>>,
              current |-> <<s2,
                            s1,
                            wrapping_sub(s0, wrapping_mul(s2, result)),
                            wrapping_sub(s1, wrapping_mul(s3, result))>>]

\* PathIterator::next: the item returned and the iterator's state after it.
next(self) ==
    IF is_root(self.current)
    THEN [item |-> None, current |-> self.current]
    ELSE LET result == u64_div(self.current[1], self.current[3])
             s0 == self.current[1]
             s1 == self.current[2]
             s2 == self.current[3]
             s3 == self.current[4]
         IN  [item |-> Some(result),
              current |-> <<s2,
                            s3,
                            wrapping_sub(s0, wrapping_mul(s2, result)),
                            wrapping_sub(s1, wrapping_mul(s3, result))>>]

\* next divides by self.current.2: "attempt to divide by zero" in every build.
next_divides_by_zero(self) ==
    /\ ~is_root(self.current)
    /\ self.current[3] = U64(0)

\* One of next's multiplications or subtractions leaves the u64 range.
next_overflows(self) ==
    /\ ~is_root(self.current)
    /\ self.current[3] # U64(0)
    /\ LET result == u64_div(self.current[1], self.current[3])
           s0 == self.current[1]
           s1 == self.current[2]
           s2 == self.current[3]
           s3 == self.current[4]
       IN  \/ u64_mul_overflows(s2, result)
           \/ u64_sub_overflows(s0, wrapping_mul(s2, result))
           \/ u64_mul_overflows(s3, result)
           \/ u64_sub_overflows(s1, wrapping_mul(s3, result))

\* The closure of path() without the subtraction.
path_map_keeps_fudge(element) == element

\* The closure of path(): |element| element - FUDGE
path_map(element) == wrapping_sub(element, U64(FUDGE))

path_map_overflows(element) == u64_sub_overflows(element, U64(FUDGE))

(***************************************************************************)
(* Inputs                                                                  *)
(***************************************************************************)
MaxLen == 3

\* 2^32: one such element fits an identifier, the product of two does not.
POW32 == <<0, 0, 4>>

SmallElements == {U64(0), U64(1)}

RECURSIVE VectorsOfLen(_, _)
VectorsOfLen(elements, n) ==
    IF n = 0
    THEN {<<>>}
    ELSE {Append(v, e) : v \in VectorsOfLen(elements, n - 1), e \in elements}

ShortVectors == UNION {VectorsOfLen(SmallElements, n) : n \in 0..MaxLen}

Vec(s) == [i \in 1..Len(s) |-> U64(s[i])]

\* The path vectors of the repository's tests and of the comment on FUDGE ...
TestVectors ==
    {Vec(<<3>>), Vec(<<3, 12>>), Vec(<<12, 3>>), Vec(<<3, 12, 5>>), Vec(<<3, 12, 5, 1>>),
     Vec(<<3, 12, 5, 1, 21>>), Vec(<<3, 5, 1>>), Vec(<<3, 6>>)}

\* ... and vectors at and beyond the edge of the u64 range.
EdgeVectors ==
    {<<POW32>>, <<POW32, U64(0)>>, <<POW32, POW32>>,
     <<wrapping_sub(U64_MAX, U64(2))>>, <<wrapping_sub(U64_MAX, U64(2)), U64(0)>>,
     <<wrapping_sub(U64_MAX, U64(1))>>, <<U64_MAX>>, <<U64(1), U64_MAX>>}

\* The arguments of From<Vec<u64>> ...
PathVectors == ShortVectors \cup TestVectors \cup EdgeVectors

\* ... and the path vectors of the right operands of `*` and `*=`.
Operands == ShortVectors \cup {<<POW32>>}

\* The arguments of from_str.
Texts ==
    {<<>>,
     <<"3">>,
     <<"3", ".", "1", "2">>,
     <<"3", ".", "1", "2", ".", "5">>,
     <<"3", ".", "1", "2", ".", "5", ".", "1">>,
     <<"3", ".", "1", "2", ".", "5", ".", "1", ".", "2", "1">>,
     <<"0", "3">>,
     <<"+", "3">>,
     <<"-", "3">>,
     <<".">>,
     <<".", "3">>,
     <<"3", ".">>,
     <<"3", ".", ".", "5">>,
     <<"x">>,
     <<"x", ".", "3">>,
     <<"3", ".", "x">>,
     <<"3", ".", "1", "2", ".", "5", "x">>,
     <<"1", "8", "4", "4", "6", "7", "4", "4", "0", "7", "3", "7", "0", "9", "5", "5",
       "1", "6", "1", "3">>,
     <<"1", "8", "4", "4", "6", "7", "4", "4", "0", "7", "3", "7", "0", "9", "5", "5",
       "1", "6", "1", "5">>,
     <<"1", "8", "4", "4", "6", "7", "4", "4", "0", "7", "3", "7", "0", "9", "5", "5",
       "1", "6", "1", "6">>,
     <<"1", "8", "4", "4", "6", "7", "4", "4", "0", "7", "3", "7", "0", "9", "5", "5",
       "1", "6", "1", "5", ".", "x">>,
     <<"4", "2", "9", "4", "9", "6", "7", "2", "9", "6", ".",
       "4", "2", "9", "4", "9", "6", "7", "2", "9", "6">>,
     <<"4", "2", "9", "4", "9", "6", "7", "2", "9", "6", ".",
       "4", "2", "9", "4", "9", "6", "7", "2", "9", "6", ".", "-", "1">>}

WalkIds == {1, 2}

LongestVector ==
    CHOOSE n \in 0..(MaxLen + 5) :
        /\ \E v \in PathVectors : Len(v) = n
        /\ \A v \in PathVectors : Len(v) <= n

\* The path vector a text spells, for the texts from_str accepts.
PiecesOf(s) ==
    IF s = <<>> THEN <<>>
    ELSE [i \in 1..Len(split(s)) |-> u64_from_str(split(s)[i]).val]

(***************************************************************************)
(* State                                                                   *)
(*                                                                         *)
(* A program makes one identifier with root, from or from_str, extends it  *)
(* with `*` and `*=`, and then decodes it, with up to two iterators at a   *)
(* time.  A panic ends the program, and so does an Err of from_str, which  *)
(* the program returns to its caller.                                      *)
(***************************************************************************)
VARIABLES
    overflow_checks,  \* the build: TRUE when u64 overflow panics (debug
                      \* profile), FALSE when it wraps (release profile)
    id,               \* the program's PathIdentifier, NoId before it has one
    vec,              \* the path vector id was built from, piece by piece
    in_range,         \* no operation that built id left the u64 range
    call,             \* the last call on the identifier and how it ended
    walks             \* the iterators returned by path()

vars == <<overflow_checks, id, vec, in_range, call, walks>>

NoId == <<>>

NoWalk == [status |-> "none", current |-> NoId, emitted |-> <<>>]

Call(op, text, overflow, outcome) ==
    [op |-> op, text |-> text, overflow |-> overflow, outcome |-> outcome]

Init ==
    /\ overflow_checks \in BOOLEAN
    /\ id = NoId
    /\ vec = <<>>
    /\ in_range = TRUE
    /\ call = Call("none", <<>>, FALSE, "Ok")
    /\ walks = [i \in WalkIds |-> NoWalk]

Panicked ==
    \/ call.outcome = "panic"
    \/ \E i \in WalkIds : walks[i].status = "panic"

Stopped == Panicked \/ call.outcome = "Err"

Decoding == \E i \in WalkIds : walks[i].status # "none"

\* The encoding call op ends in a panic: no identifier is returned.
Panic(op, text) ==
    /\ call' = Call(op, text, TRUE, "panic")
    /\ UNCHANGED <<id, vec, in_range>>

\* The encoding call op returns identifier r for path vector v.
Return(op, text, r, v, overflow, exact) ==
    /\ id' = r
    /\ vec' = v
    /\ in_range' = exact
    /\ call' = Call(op, text, overflow, "Ok")

\* id = PathIdentifier::root()
Root ==
    /\ id = NoId /\ ~Stopped
    /\ Return("root", <<>>, root, <<>>, FALSE, TRUE)
    /\ UNCHANGED <<overflow_checks, walks>>

\* id = PathIdentifier::from(pieces)
FromVec(pieces) ==
    /\ id = NoId /\ ~Stopped
    /\ LET overflow == from_iter_overflows(pieces)
       IN  IF overflow /\ overflow_checks
           THEN Panic("from", <<>>)
           ELSE Return("from", <<>>, from_vec(pieces), pieces, overflow, ~overflow)
    /\ UNCHANGED <<overflow_checks, walks>>

\* id = s.parse()?
FromStr(s) ==
    /\ id = NoId /\ ~Stopped
    /\ LET overflow == from_str_overflows(s)
           result == from_str(s)
       IN  IF overflow /\ overflow_checks
           THEN Panic("from_str", s)
           ELSE IF result.tag = "Err"
                THEN /\ call' = Call("from_str", s, overflow, "Err")
                     /\ UNCHANGED <<id, vec, in_range>>
                ELSE Return("from_str", s, result.val, PiecesOf(s), overflow, ~overflow)
    /\ UNCHANGED <<overflow_checks, walks>>

\* id = id.clone() * PathIdentifier::from(pieces)
Mul(pieces) ==
    /\ id # NoId /\ ~Stopped /\ ~Decoding
    /\ Len(vec) + Len(pieces) <= MaxLen
    /\ LET other == from_vec(pieces)
           overflow == from_iter_overflows(pieces) \/ mul_overflows(id, other)
       IN  IF overflow /\ overflow_checks
           THEN Panic("mul", <<>>)
           ELSE Return("mul", <<>>, mul(id, other), vec \o pieces,
                       overflow, in_range /\ ~overflow)
    /\ UNCHANGED <<overflow_checks, walks>>

\* id *= PathIdentifier::from(pieces)
MulAssign(pieces) ==
    /\ id # NoId /\ ~Stopped /\ ~Decoding
    /\ Len(vec) + Len(pieces) <= MaxLen
    /\ LET other == from_vec(pieces)
           overflow == from_iter_overflows(pieces) \/ mul_assign_overflows(id, other)
       IN  IF overflow /\ overflow_checks
           THEN Panic("mul_assign", <<>>)
           ELSE Return("mul_assign", <<>>, mul_assign(id, other), vec \o pieces,
                       overflow, in_range /\ ~overflow)
    /\ UNCHANGED <<overflow_checks, walks>>

\* walks[i] = id.path()
Path(i) ==
    /\ id # NoId /\ ~Stopped
    /\ walks' = [walks EXCEPT ![i] =
                    [status |-> "live", current |-> path_iter(id).current, emitted |-> <<>>]]
    /\ call' = Call("path", <<>>, FALSE, "Ok")
    /\ UNCHANGED <<overflow_checks, id, vec, in_range>>

\* The iterator walks[i] after one call of its next(): PathIterator::next,
\* then the closure of path() on Some.
WalkAfterNext(i) ==
    LET it == [current |-> walks[i].current]
        r  == next(it)
    IN  IF next_divides_by_zero(it) \/ (overflow_checks /\ next_overflows(it))
        THEN [walks[i] EXCEPT !.status = "panic"]
        ELSE IF r.item = None
             THEN [walks[i] EXCEPT !.status = "ended"]
             ELSE IF overflow_checks /\ path_map_overflows(r.item[1])
                  THEN [walks[i] EXCEPT !.status = "panic"]
                  ELSE [walks[i] EXCEPT !.current = r.current,
                                        !.emitted = Append(@, path_map(r.item[1]))]

\* The same call on an iterator that walks the identifier in place instead of
\* a clone of it.
WalkNextInPlace(i) ==
    /\ ~Stopped
    /\ walks[i].status \in {"live", "ended"}
    /\ Len(walks[i].emitted) <= LongestVector
    /\ walks' = [walks EXCEPT ![i] = WalkAfterNext(i)]
    /\ id' = WalkAfterNext(i).current
    /\ UNCHANGED <<overflow_checks, vec, in_range, call>>

\* walks[i].next().  A walk is followed until it has emitted more elements
\* than the longest path vector of the inputs has (only the walk of an
\* identifier that left the u64 range gets there).
WalkNext(i) ==
    /\ ~Stopped
    /\ walks[i].status \in {"live", "ended"}
    /\ Len(walks[i].emitted) <= LongestVector
    /\ walks' = [walks EXCEPT ![i] = WalkAfterNext(i)]
    /\ UNCHANGED <<overflow_checks, id, vec, in_range, call>>

Next ==
    \/ Root
    \/ \E pieces \in PathVectors : FromVec(pieces)
    \/ \E s \in Texts : FromStr(s)
    \/ \E pieces \in Operands : Mul(pieces)
    \/ \E pieces \in Operands : MulAssign(pieces)
    \/ \E i \in WalkIds : Path(i)
    \/ \E i \in WalkIds : WalkNext(i)

Spec == Init /\ [][Next]_vars

(***************************************************************************)
(* Properties                                                              *)
(***************************************************************************)
\* An encoding call has just returned the identifier id.
EncodeReturned ==
    /\ call.op \in {"root", "from", "from_str", "mul", "mul_assign"}
    /\ call.outcome = "Ok"

Started(i) == walks[i].status # "none"

IsPrefix(p, v) == Len(p) <= Len(v) /\ p = SubSeq(v, 1, Len(p))

Identity == <<U64(1), U64(0), U64(0), U64(1)>>

\* The rational encoder of the specification: the ratio after folding the
\* elements of v from the last down to the i-th into 0/1 with
\* ratio = 1 / (ratio + element + 2), as <<numerator, denominator>>, in exact
\* arithmetic.
RECURSIVE RationalFold(_, _)
RationalFold(v, i) ==
    IF i > Len(v)
    THEN <<U64(0), U64(1)>>
    ELSE LET ratio == RationalFold(v, i + 1)
         IN  <<ratio[2],
               Strip(WideAdd(ratio[1], WideMul(WideAdd(v[i], U64(2)), ratio[2])))>>

\* ... and its result: the reciprocal of the final ratio.
RationalEncode(v) == <<RationalFold(v, 1)[2], RationalFold(v, 1)[1]>>

RECURSIVE Gcd(_, _)
Gcd(a, b) == IF b = U64(0) THEN a ELSE Gcd(b, u64_rem(a, b))

\* A dot-separated piece that is empty or holds a character that is no digit
\* (a "+" in front of at least one more character is a sign).
BadPiece(piece) ==
    \/ piece = <<>>
    \/ \E k \in 1..Len(piece) :
           /\ ~IsDigit(piece[k])
           /\ ~(k = 1 /\ piece[k] = "+" /\ Len(piece) > 1)

HasBadPiece(s) == s # <<>> /\ \E k \in 1..Len(split(s)) : BadPiece(split(s)[k])

\* C1: round trip.  For every path vector v whose encoding stays within the
\* u64 range, the elements path() yields for PathIdentifier::from(v) are the
\* elements of v in order, and when the iterator ends it has yielded exactly v;
\* no step of the walk panics.
C1_RoundTrip ==
    \A i \in WalkIds :
        (in_range /\ Started(i)) =>
            /\ walks[i].status # "panic"
            /\ IsPrefix(walks[i].emitted, vec)
            /\ walks[i].status = "ended" => walks[i].emitted = vec

C1_Witness ==
    \E i \in WalkIds :
        /\ in_range
        /\ walks[i].status = "ended"
        /\ vec = Vec(<<3, 12, 5, 1, 21>>)
        /\ walks[i].emitted = vec

\* C2: injectivity and equality.  An identifier built within range from path
\* vector vec equals (on all four fields) the encoding of a path vector v
\* within range if and only if v = vec.
C2_Injective ==
    (EncodeReturned /\ in_range) =>
        \A v \in PathVectors :
            ~from_iter_overflows(v) => ((from_vec(v) = id) <=> (v = vec))

C2_Witness ==
    /\ EncodeReturned
    /\ in_range
    /\ vec = Vec(<<3, 6>>)
    /\ ~from_iter_overflows(Vec(<<3, 5, 1>>))
    /\ from_vec(Vec(<<3, 5, 1>>)) # id

\* C3: the matrix form agrees with the rational form.  For a non-empty path
\* vector v within range, PathIdentifier::from(v) is (p, p', q, q') with p/q
\* the rational encoding of v, in lowest terms, and p'/q' the rational encoding
\* of v without its last element, (1, 0) when v has one element.
C3_MatrixIsRational ==
    (EncodeReturned /\ in_range /\ vec # <<>>) =>
        LET pq   == RationalEncode(vec)
            prev == IF Len(vec) = 1
                    THEN <<U64(1), U64(0)>>
                    ELSE RationalEncode(SubSeq(vec, 1, Len(vec) - 1))
        IN  /\ id = <<pq[1], prev[1], pq[2], prev[2]>>
            /\ Gcd(id[1], id[3]) = U64(1)
            /\ vec = Vec(<<3>>) => id = Vec(<<5, 1, 1, 0>>)
            /\ vec = Vec(<<3, 12>>) => id = Vec(<<71, 5, 14, 1>>)
            /\ vec = Vec(<<3, 12, 5>>) => id = Vec(<<502, 71, 99, 14>>)

C3_Witness ==
    /\ EncodeReturned
    /\ in_range
    /\ vec = Vec(<<3, 12, 5>>)
    /\ id = Vec(<<502, 71, 99, 14>>)

\* C4: overflow is surfaced.  An encoding call whose arithmetic leaves the u64
\* range reports an error to its caller: it neither panics nor returns an
\* identifier of wrapped fields.
C4_OverflowSurfaced == call.overflow => call.outcome = "Err"

\* C5: parse errors are reported values.  from_str on a text with a piece that
\* is empty or not numeric returns Err, whatever the pieces before it are.
C5_ParseErrorReported ==
    (call.op = "from_str" /\ HasBadPiece(call.text)) => call.outcome = "Err"

\* C6: root identity.  The empty vector and the empty text encode to
\* (1, 0, 0, 1), whose path() yields nothing; an identifier of a non-empty
\* path vector within range is not root (and is_root says so) and its path()
\* yields at least one element.
C6_RootIdentity ==
    /\ (EncodeReturned /\ in_range /\ vec = <<>>) => id = Identity
    /\ (id # NoId /\ in_range /\ vec # <<>>) => (~is_root(id) /\ id # Identity)
    /\ \A i \in WalkIds :
           (in_range /\ Started(i)) =>
               /\ vec = <<>> => walks[i].emitted = <<>>
               /\ walks[i].status = "ended" => (walks[i].emitted = <<>> <=> vec = <<>>)

C6_Witness ==
    \E i \in WalkIds :
        /\ id = Identity
        /\ vec = <<>>
        /\ walks[i].status = "ended"
        /\ walks[i].emitted = <<>>

\* C7: concatenation by multiplication.  Within range, the product of the
\* identifier of v1 and the identifier of v2, by `*` or by `*=`, is the
\* identifier of v1 ++ v2; `*` and `*=` give the same matrix, and root is an
\* identity on both sides.
C7_MulConcatenates ==
    (EncodeReturned /\ in_range) =>
        /\ call.op \in {"mul", "mul_assign"} => id = from_vec(vec)
        /\ mul(root, id) = id
        /\ mul(id, root) = id
        /\ mul_assign(root, id) = id
        /\ mul_assign(id, root) = id
        /\ \A pieces \in Operands :
               (/\ ~from_iter_overflows(pieces)
                /\ ~mul_overflows(id, from_vec(pieces))) =>
                   /\ mul(id, from_vec(pieces)) = mul_assign(id, from_vec(pieces))
                   /\ mul(id, from_vec(pieces)) = from_vec(vec \o pieces)

C7_Witness ==
    /\ call.op = "mul"
    /\ call.outcome = "Ok"
    /\ in_range
    /\ Len(vec) = MaxLen
    /\ vec[1] # vec[MaxLen]
    /\ id = from_vec(vec)

\* C8: decoding terminates at the identity.  The walk of an identifier within
\* range yields Some exactly Len(vec) times; after each step its state is the
\* encoding of the elements not yet yielded, and so the identity matrix, not
\* just a matrix with field .1 = 0, when all are yielded and next returns None.
C8_DecodeEndsAtIdentity ==
    \A i \in WalkIds :
        (in_range /\ Started(i)) =>
            /\ walks[i].status # "panic"
            /\ Len(walks[i].emitted) <= Len(vec)
            /\ walks[i].current =
                   from_vec(SubSeq(vec, Len(walks[i].emitted) + 1, Len(vec)))
            /\ Len(walks[i].emitted) = Len(vec) => walks[i].current = Identity
            /\ walks[i].status = "ended" =>
                   (Len(walks[i].emitted) = Len(vec) /\ walks[i].current = Identity)

C8_Witness ==
    \E i \in WalkIds :
        /\ in_range
        /\ Len(vec) = MaxLen
        /\ walks[i].status = "ended"
        /\ Len(walks[i].emitted) = MaxLen
        /\ walks[i].current = Identity

\* C9: decoding does not change the identifier.  A call of path() or of next()
\* leaves the identifier as it is and changes one iterator only, and the
\* iterators of the identifier all yield the same sequence.
C9_DecodeLeavesIdentifier ==
    [][walks' # walks =>
          /\ id' = id
          /\ Cardinality({i \in WalkIds : walks'[i] # walks[i]}) = 1
          /\ \A i, j \in WalkIds :
                 (/\ walks'[i].status \in {"live", "ended"}
                  /\ walks'[j].status \in {"live", "ended"}) =>
                     /\ \/ IsPrefix(walks'[i].emitted, walks'[j].emitted)
                        \/ IsPrefix(walks'[j].emitted, walks'[i].emitted)
                     /\ (walks'[i].status = "ended" /\ walks'[j].status = "ended") =>
                            walks'[i].emitted = walks'[j].emitted]_vars

C9_Witness ==
    /\ id = Vec(<<502, 71, 99, 14>>)
    /\ walks[1].status = "ended"
    /\ Len(walks[1].emitted) = 3
    /\ walks[2].status = "live"
    /\ Len(walks[2].emitted) = 1

\* C10: decode arithmetic is safe.  In every state of the walk of an
\* identifier within range that is not root, the divisor field .2 is at least
\* 1, the quotient is at least 2 (FUDGE can be subtracted), and the products
\* and differences of next stay within the u64 range.
C10_DecodeArithmeticSafe ==
    \A i \in WalkIds :
        (in_range /\ walks[i].status = "live" /\ ~is_root(walks[i].current)) =>
            LET s0 == walks[i].current[1]
                s1 == walks[i].current[2]
                s2 == walks[i].current[3]
                s3 == walks[i].current[4]
                result == u64_div(s0, s2)
            IN  /\ s2 # U64(0)
                /\ ~u64_lt(result, U64(2))
                /\ ~u64_mul_overflows(s2, result)
                /\ ~u64_mul_overflows(s3, result)
                /\ ~u64_sub_overflows(s0, wrapping_mul(s2, result))
                /\ ~u64_sub_overflows(s1, wrapping_mul(s3, result))

C10_Witness ==
    \E i \in WalkIds :
        /\ in_range
        /\ walks[i].status = "live"
        /\ ~is_root(walks[i].current)
        /\ walks[i].current[1] = U64_MAX
====
